---------------------------- MODULE Spec2Model ----------------------------
(***************************************************************************)
(* A model of evanphx/sync (src/main.go): the one-way directory            *)
(* synchronizer.  run() removes the status marker, watches the source      *)
(* root, performs the initial walk (syncDirs), touches <dest>/.synced and  *)
(* then dispatches watch events (createEntry, copyFile, removeEntry,       *)
(* chmodFile) until it is cancelled or fails.                              *)
(*                                                                         *)
(* The two directory trees are functions from relative paths to entries.   *)
(* The operating system calls the program makes (os.Lstat, os.Remove,      *)
(* os.RemoveAll, os.Mkdir, os.Chmod, os.Symlink, os.OpenFile, io.Copy,     *)
(* filepath.Walk, fsnotify) are modelled by what they do to these trees.   *)
(***************************************************************************)
EXTENDS Integers, Sequences, FiniteSets, TLC

(***************************************************************************)
(* Bounds of the model.                                                    *)
(***************************************************************************)
\* Timestamps at start lie in 1..InitTime; the clock never passes MaxTime.
InitTime == 2
MaxTime == 3
\* The number of changes the environment makes to the source tree in a run.
MaxChanges == 2

(***************************************************************************)
(* Paths.  Every path is relative to the root ("." is the root itself, as  *)
(* filepath.Rel returns it).  Lexical is the order in which filepath.Walk  *)
(* visits them: parents first, the names of a directory in byte order.     *)
(***************************************************************************)
Root == "."
Names == {".synced", "a", "a/f"}
AllPaths == {Root} \cup Names
Lexical == <<".", ".synced", "a", "a/f">>
Parent(p) == IF p = "a/f" THEN "a" ELSE Root

RECURSIVE Under(_, _)
\* q lies strictly beneath p
Under(p, q) == q # Root /\ (Parent(q) = p \/ Under(p, Parent(q)))

\* statusPath := filepath.Join(*fDest, ".synced")
statusPath == ".synced"

(***************************************************************************)
(* Entries.  A mode is the permission bits as a number (420 = 0644,        *)
(* 436 = 0664; a symbolic link's is 511 = 0777); data is the content of a  *)
(* regular file, whose size is Len(data); mtime is the modification time;  *)
(* target is the text of a symbolic link.  Fields an entry kind does not   *)
(* have are held at a fixed value.  "other" is a device or a named pipe,   *)
(* "sock" a UNIX domain socket.                                            *)
(***************************************************************************)
Modes == {420, 436}
Umasks == {0, 18}
Datas == {<<>>, <<1>>, <<2>>}
Targets == {"T1", "T2"}

NoEnt == [kind |-> "none", mode |-> 0, data |-> <<>>, mtime |-> 0, target |-> ""]
Dir(m) == [kind |-> "dir", mode |-> m, data |-> <<>>, mtime |-> 0, target |-> ""]
Reg(m, d, t) == [kind |-> "reg", mode |-> m, data |-> d, mtime |-> t, target |-> ""]
Sym(tg) == [kind |-> "sym", mode |-> 511, data |-> <<>>, mtime |-> 0, target |-> tg]
Other(m) == [kind |-> "other", mode |-> m, data |-> <<>>, mtime |-> 0, target |-> ""]
Sock(m) == [kind |-> "sock", mode |-> m, data |-> <<>>, mtime |-> 0, target |-> ""]

Size(e) == Len(e.data)

\* A tree is well formed when every entry sits in a directory.
WellFormed(fs) ==
    /\ fs[Root].kind = "dir"
    /\ \A p \in Names : fs[p].kind # "none" => fs[Parent(p)].kind = "dir"

RECURSIVE BitAnd(_, _)
BitAnd(a, b) ==
    IF a = 0 \/ b = 0 THEN 0
    ELSE (a % 2) * (b % 2) + 2 * BitAnd(a \div 2, b \div 2)

\* The permission bits a create call gives a new entry: perm &^ umask.
Masked(perm, um) == perm - BitAnd(perm, um)

(***************************************************************************)
(* The operating system's calls.  Each yields [err, fs]: the error ("nil"  *)
(* for none) and the tree afterwards.  A symbolic link's target lies       *)
(* outside the modelled tree and does not exist there.                     *)
(***************************************************************************)
Ok(fs) == [err |-> "nil", fs |-> fs]
Fail(e, fs) == [err |-> e, fs |-> fs]

\* The error of resolving the directory that holds p, "nil" when it is there.
ParentErr(fs, p) ==
    IF p = Root THEN "nil"
    ELSE CASE fs[Parent(p)].kind = "dir" -> "nil"
           [] fs[Parent(p)].kind \in {"none", "sym"} -> "ENOENT"
           [] OTHER -> "ENOTDIR"

\* os.Lstat(name): whether the entry is there.
LstatOk(fs, p) == ParentErr(fs, p) = "nil" /\ fs[p].kind # "none"

HasChild(fs, p) == \E q \in Names : Parent(q) = p /\ fs[q].kind # "none"

\* A removal that also takes a directory with contents.
OsRemoveForce(fs, p) ==
    IF ~LstatOk(fs, p) THEN Fail("ENOENT", fs)
    ELSE Ok([q \in AllPaths |-> IF q = p \/ Under(p, q) THEN NoEnt ELSE fs[q]])

\* os.Remove(name): unlink, or rmdir of an empty directory.
OsRemove(fs, p) ==
    IF ~LstatOk(fs, p) THEN Fail("ENOENT", fs)
    ELSE IF fs[p].kind = "dir" /\ HasChild(fs, p) THEN Fail("ENOTEMPTY", fs)
    ELSE Ok([fs EXCEPT ![p] = NoEnt])

\* os.RemoveAll(path): removes path and everything beneath it; an absent
\* path is no error.
OsRemoveAll(fs, p) ==
    Ok([q \in AllPaths |-> IF q = p \/ Under(p, q) THEN NoEnt ELSE fs[q]])

\* os.Mkdir(name, perm): the new directory gets perm less the umask.
OsMkdir(fs, p, perm, um) ==
    IF ParentErr(fs, p) # "nil" THEN Fail(ParentErr(fs, p), fs)
    ELSE IF fs[p].kind # "none" THEN Fail("EEXIST", fs)
    ELSE Ok([fs EXCEPT ![p] = Dir(Masked(perm, um))])

\* os.Chmod(name, mode): follows a symbolic link, whose target is not there.
OsChmod(fs, p, perm) ==
    IF ~LstatOk(fs, p) \/ fs[p].kind = "sym" THEN Fail("ENOENT", fs)
    ELSE Ok([fs EXCEPT ![p].mode = perm])

\* os.Symlink(oldname, newname)
OsSymlink(fs, tg, p) ==
    IF ParentErr(fs, p) # "nil" THEN Fail(ParentErr(fs, p), fs)
    ELSE IF fs[p].kind # "none" THEN Fail("EEXIST", fs)
    ELSE Ok([fs EXCEPT ![p] = Sym(tg)])

\* os.OpenFile(name, flags, perm) for writing or creating, with O_CREATE
\* always set and O_TRUNC when trunc.  A new file gets perm less the umask;
\* an existing file keeps its mode.  Opening through a symbolic link opens
\* (or creates) the link's target, outside the tree.  now is the time of
\* the call.
OsOpenFile(fs, p, trunc, perm, um, now) ==
    IF ParentErr(fs, p) # "nil" THEN Fail(ParentErr(fs, p), fs)
    ELSE CASE fs[p].kind = "none" ->
                Ok([fs EXCEPT ![p] = Reg(Masked(perm, um), <<>>, now)])
           [] fs[p].kind = "reg" ->
                IF trunc THEN Ok([fs EXCEPT ![p].data = <<>>, ![p].mtime = now])
                ELSE Ok(fs)
           [] fs[p].kind = "dir" -> Fail("EISDIR", fs)
           [] OTHER -> Ok(fs)

\* io.Copy(tf, ff): the bytes of the source file written to the open
\* destination file (nothing of the tree changes when the open file is the
\* target of a link).
IoCopy(fs, p, data, now) ==
    IF fs[p].kind = "reg" THEN [fs EXCEPT ![p].data = data, ![p].mtime = now]
    ELSE fs

(***************************************************************************)
(* The program's state.                                                    *)
(***************************************************************************)
VARIABLES
    src,             \* the tree under *fSrc
    dest,            \* the tree under *fDest
    ignorePatterns,  \* the relative paths the ignore patterns match
    umask,           \* the process's file mode creation mask
    watches,         \* the source directories the watcher w is subscribed to
    events,          \* w.Events: the watch events not yet received
    errors,          \* w.Errors: whether a watch error waits to be received
    cancel,          \* the cancel channel (capacity 1): whether a signal waits
    pc,              \* where run is: start, walk, synced, loop, done
    ret,             \* the return statement run left by, and its error
    todo,            \* filepath.Walk: the paths still to visit, in order
    clock,           \* the latest timestamp given so far
    changes,         \* how many changes the environment has made to src
    copied,          \* the paths syncDirs called copyFile for, this call
    pass,            \* which call of syncDirs this is
    dest0,           \* the destination tree as it was at start
    src0,            \* the source tree as it was at start
    received         \* ev: the event run received last

vars == <<src, dest, ignorePatterns, umask, watches, events, errors, cancel,
          pc, ret, todo, clock, changes, copied, pass, dest0, src0, received>>

(***************************************************************************)
(* ignore.Matches(rel, ignorePatterns): the matcher never matches ".".     *)
(***************************************************************************)
\* The ignore check left out.
MatchesNothing(rel, patterns) == FALSE

Matches(rel, patterns) == rel # Root /\ rel \in patterns

(***************************************************************************)
(* The handlers' results: the error returned, the destination tree and     *)
(* the watch set afterwards, and whether copyFile was called.              *)
(***************************************************************************)
Res(e, d, w, c) == [err |-> e, dest |-> d, watches |-> w, copied |-> c]

\* The staleness test of lines 227 and 290, with Go's precedence: && binds
\* tighter than ||.
\* The staleness test without its equal-time branch.
UpToDateIfNewer(fi, tfi) == Size(tfi) = Size(fi) /\ tfi.mtime > fi.mtime

UpToDate(fi, tfi) ==
    (Size(tfi) = Size(fi) /\ tfi.mtime > fi.mtime) \/ tfi.mtime = fi.mtime

\* setupLink(to, from)
setupLink(s, d, rel) ==
    IF s[rel].kind # "sym" THEN Fail("reading link", d)
    ELSE LET removed == OsRemove(d, rel).fs
             linked == OsSymlink(removed, s[rel].target, rel)
         IN  IF linked.err # "nil" THEN Fail("symlinking", linked.fs)
             ELSE Ok(linked.fs)

\* copyFile(rel, stat).  os.Open follows a symbolic link, whose target is
\* not there, and fails with ENXIO on a socket; a device or a named pipe is
\* taken to open at once.
copyFile(s, d, rel, um, now) ==
    IF ~LstatOk(s, rel) \/ s[rel].kind = "sym" THEN Fail("ENOENT", d)
    ELSE IF s[rel].kind = "sock" THEN Fail("ENXIO", d)
    ELSE IF s[rel].kind \in {"other", "dir"} THEN Ok(d)
    ELSE LET tf == OsOpenFile(d, rel, TRUE, s[rel].mode, um, now)
         IN  IF tf.err # "nil"
             THEN IF tf.err = "ENOENT" THEN Ok(d)
                  ELSE Fail("opening file for writing", d)
             ELSE IF Size(s[rel]) = 0 THEN Ok(tf.fs)
             ELSE Ok(IoCopy(tf.fs, rel, s[rel].data, now))

\* The directory branch of the walk function (lines 167-210).
syncDir(s, d, w, rel, um) ==
    LET w1 == w \cup {rel}
    IN  IF ~LstatOk(d, rel)
        THEN LET made == OsMkdir(d, rel, s[rel].mode, um)
             IN  IF made.err # "nil" THEN Res("making a directory", d, w1, FALSE)
                 ELSE Res("nil", made.fs, w1, FALSE)
        ELSE IF d[rel].kind # "dir"
        THEN LET removed == OsRemove(d, rel)
                 made == OsMkdir(removed.fs, rel, s[rel].mode, um)
             IN  IF removed.err # "nil"
                 THEN Res("removing errant non-dir", d, w1, FALSE)
                 ELSE IF made.err # "nil"
                 THEN Res("making a directory", removed.fs, w1, FALSE)
                 ELSE Res("nil", made.fs, w1, FALSE)
        ELSE LET modded == OsChmod(d, rel, s[rel].mode)
             IN  IF modded.err # "nil" THEN Res("chmod", d, w1, FALSE)
                 ELSE Res("nil", modded.fs, w1, FALSE)

\* The regular-file branch of the walk function (lines 220-238).
syncFile(s, d, w, rel, um, now) ==
    LET cleared == IF LstatOk(d, rel) /\ d[rel].kind # "reg"
                   THEN OsRemoveAll(d, rel).fs ELSE d
        done == copyFile(s, cleared, rel, um, now)
    IN  IF LstatOk(d, rel) /\ d[rel].kind = "reg" /\ UpToDate(s[rel], d[rel])
        THEN Res("nil", d, w, FALSE)
        ELSE IF done.err # "nil" THEN Res("copying file", done.fs, w, TRUE)
        ELSE Res("nil", done.fs, w, TRUE)

\* The function syncDirs hands to filepath.Walk (lines 141-239), for an
\* entry the walk could lstat, after the cancel check.
walkFn(s, d, w, patterns, rel, um, now) ==
    IF Matches(rel, patterns)
    THEN Res(IF s[rel].kind = "dir" THEN "SkipDir" ELSE "nil", d, w, FALSE)
    ELSE IF s[rel].kind = "dir" THEN syncDir(s, d, w, rel, um)
    ELSE IF s[rel].kind # "reg"
    THEN IF s[rel].kind = "sym"
         THEN LET l == setupLink(s, d, rel)
              IN  Res(l.err, l.fs, w, FALSE)
         ELSE Res("nil", d, w, FALSE)
    ELSE syncFile(s, d, w, rel, um, now)

\* createEntry(rel, w)
createEntry(s, d, w, rel, um, now) ==
    IF ~LstatOk(s, rel) THEN Res("ENOENT", d, w, FALSE)
    ELSE IF s[rel].kind = "dir"
    THEN LET made == OsMkdir(d, rel, s[rel].mode, um)
         IN  IF made.err # "nil" THEN Res(made.err, d, w, FALSE)
             ELSE Res("nil", made.fs, w \cup {rel}, FALSE)
    ELSE IF s[rel].kind # "reg"
    THEN IF s[rel].kind = "sym"
         THEN LET l == setupLink(s, d, rel)
              IN  Res(l.err, l.fs, w, FALSE)
         ELSE Res("nil", d, w, FALSE)
    ELSE LET cleared == IF LstatOk(d, rel) /\ d[rel].kind # "reg"
                        THEN OsRemoveAll(d, rel).fs ELSE d
             f == OsOpenFile(cleared, rel, FALSE, s[rel].mode, um, now)
         IN  IF LstatOk(d, rel) /\ d[rel].kind = "reg" /\ UpToDate(s[rel], d[rel])
             THEN Res("nil", d, w, FALSE)
             ELSE IF f.err # "nil" THEN Res(f.err, cleared, w, FALSE)
             ELSE Res("nil", f.fs, w, FALSE)

\* removeEntry(rel, w): the errors of w.Remove and os.Remove are dropped.
removeEntry(d, w, rel) ==
    Res("nil", OsRemove(d, rel).fs, w \ {rel}, FALSE)

\* chmodFile(rel)
chmodFile(s, d, w, rel) ==
    IF ~LstatOk(s, rel) THEN Res("ENOENT", d, w, FALSE)
    ELSE LET modded == OsChmod(d, rel, s[rel].mode)
         IN  Res(modded.err, modded.fs, w, FALSE)

\* The event arm of run's select (lines 82-115) for the event ev: the
\* return statement left by ("loop" when the loop goes on), the error, and
\* the destination tree and the watch set afterwards.
Disp(at, e, d, w) == [at |-> at, err |-> e, dest |-> d, watches |-> w]

\* A handler's result r as the outcome of the flag's if statement, which
\* returns at the line at when the handler failed.
Handled(r, at) ==
    Disp(IF r.err = "nil" THEN "loop" ELSE at, r.err, r.dest, r.watches)

\* if ev.Op&fsnotify.Create == fsnotify.Create (lines 92-96)
onCreate(s, d, w, ev, um, now) ==
    IF "create" \in ev.op
    THEN Handled(createEntry(s, d, w, ev.name, um, now), "L94")
    ELSE Disp("loop", "nil", d, w)

\* The write flag passed over.
onWriteSkipped(s, ev, um, now, prev) == prev

\* The write flag handled with the staleness test of the create flag.
onWriteIfStale(s, ev, um, now, prev) ==
    IF /\ prev.at = "loop" /\ "write" \in ev.op
       /\ ~(/\ LstatOk(s, ev.name) /\ s[ev.name].kind = "reg"
            /\ LstatOk(prev.dest, ev.name) /\ prev.dest[ev.name].kind = "reg"
            /\ UpToDate(s[ev.name], prev.dest[ev.name]))
    THEN Disp(IF copyFile(s, prev.dest, ev.name, um, now).err = "nil"
              THEN "loop" ELSE "L100",
              copyFile(s, prev.dest, ev.name, um, now).err,
              copyFile(s, prev.dest, ev.name, um, now).fs,
              prev.watches)
    ELSE prev

\* if ev.Op&fsnotify.Write == fsnotify.Write (lines 98-102)
onWrite(s, ev, um, now, prev) ==
    IF prev.at = "loop" /\ "write" \in ev.op
    THEN Disp(IF copyFile(s, prev.dest, ev.name, um, now).err = "nil"
              THEN "loop" ELSE "L100",
              copyFile(s, prev.dest, ev.name, um, now).err,
              copyFile(s, prev.dest, ev.name, um, now).fs,
              prev.watches)
    ELSE prev

\* if ev.Op&fsnotify.Remove == fsnotify.Remove (lines 104-108)
onRemove(ev, prev) ==
    IF prev.at = "loop" /\ "remove" \in ev.op
    THEN Handled(removeEntry(prev.dest, prev.watches, ev.name), "L106")
    ELSE prev

\* if ev.Op&fsnotify.Chmod == fsnotify.Chmod (lines 110-114)
onChmod(s, ev, prev) ==
    IF prev.at = "loop" /\ "chmod" \in ev.op
    THEN Handled(chmodFile(s, prev.dest, prev.watches, ev.name), "L112")
    ELSE prev

dispatch(s, d, w, patterns, ev, um, now) ==
    IF Matches(ev.name, patterns) THEN Disp("L89", "nil", d, w)
    ELSE onChmod(s, ev,
            onRemove(ev,
               onWrite(s, ev, um, now,
                  onCreate(s, d, w, ev, um, now))))

\* readDirNames of filepath.Walk: the names in a directory, sorted.
DirNames(s, p) ==
    SelectSeq(Lexical, LAMBDA q : q \in Names /\ Parent(q) = p /\ s[q].kind # "none")

\* The timestamps a write made now may carry.
Stamps(c) == {c} \cup (IF c < MaxTime THEN {c + 1} ELSE {})

Return(at, e) ==
    /\ pc' = "done"
    /\ ret' = [at |-> at, err |-> e]

(***************************************************************************)
(* syncDirs: one step of filepath.Walk visits the next path.  An error     *)
(* of syncDirs is returned by run at line 65.                              *)
(***************************************************************************)
WalkStep ==
    /\ pc = "walk"
    /\ todo # <<>>
    /\ LET p == Head(todo) IN
       IF ~LstatOk(src, p)
       THEN \* the walk's lstat failed: walkFn returns the error (142-144)
            /\ Return("L65", "ENOENT")
            /\ UNCHANGED <<dest, watches, cancel, todo, clock, copied>>
       ELSE IF cancel
       THEN \* lines 146-150
            /\ cancel' = FALSE
            /\ Return("L65", "canceled")
            /\ UNCHANGED <<dest, watches, todo, clock, copied>>
       ELSE \E now \in Stamps(clock) :
            LET r == walkFn(src, dest, watches, ignorePatterns, p, umask, now) IN
            /\ r.copied \/ now = clock
            /\ dest' = r.dest
            /\ watches' = r.watches
            /\ clock' = now
            /\ copied' = IF r.copied THEN copied \cup {p} ELSE copied
            /\ cancel' = cancel
            /\ IF r.err = "nil"
               THEN /\ todo' = (IF src[p].kind = "dir" THEN DirNames(src, p) ELSE <<>>)
                               \o Tail(todo)
                    /\ UNCHANGED <<pc, ret>>
               ELSE IF r.err = "SkipDir"
               THEN /\ todo' = Tail(todo)
                    /\ UNCHANGED <<pc, ret>>
               ELSE /\ todo' = todo
                    /\ Return("L65", r.err)
    /\ UNCHANGED <<src, ignorePatterns, umask, events, errors, changes, pass,
                   dest0, src0, received>>

\* filepath.Walk has visited everything: syncDirs returns nil (line 247).
SyncDirsReturn ==
    /\ pc = "walk"
    /\ todo = <<>>
    /\ pc' = "synced"
    /\ UNCHANGED <<src, dest, ignorePatterns, umask, watches, events, errors,
                   cancel, ret, todo, clock, changes, copied, pass, dest0, src0, received>>

\* syncDirs is called a second time, straight after the first.
SyncDirsAgain ==
    /\ pc = "synced"
    /\ pass = 1
    /\ pass' = 2
    /\ pc' = "walk"
    /\ todo' = <<Root>>
    /\ copied' = {}
    /\ UNCHANGED <<src, dest, ignorePatterns, umask, watches, events, errors,
                   cancel, ret, clock, changes, dest0, src0, received>>

(***************************************************************************)
(* The trees a run may start from.                                         *)
(***************************************************************************)
SrcEntries ==
    {NoEnt} \cup {Dir(m) : m \in Modes} \cup {Sym(tg) : tg \in Targets}
    \cup {Other(420), Sock(420)}
    \cup {Reg(m, d, t) : m \in Modes, d \in Datas, t \in 1..InitTime}
DestEntries == SrcEntries \ {Other(420), Sock(420)}

NoRet == [at |-> "none", err |-> "nil"]

\* No event received yet.
NoEvent == [name |-> Root, op |-> {}]

\* syncDirs on any pair of trees: the state after lines 43-61 of run.
InitWalk ==
    /\ src \in {s \in [AllPaths -> SrcEntries] :
                  /\ WellFormed(s)
                  /\ s[Root] = Dir(436)
                  /\ s[".synced"] \in {NoEnt, Reg(420, <<1>>, 1), Reg(436, <<>>, InitTime)}}
    /\ dest \in {d \in [AllPaths -> DestEntries] :
                  /\ WellFormed(d)
                  /\ d[Root] = Dir(420)
                  /\ d[".synced"] = NoEnt}
    /\ ignorePatterns \in {{}, {"a"}, {"a/f"}}
    /\ umask \in Umasks
    /\ watches = {Root}
    /\ events = <<>>
    /\ errors = FALSE
    /\ cancel = FALSE
    /\ pc = "walk"
    /\ ret = NoRet
    /\ todo = <<Root>>
    /\ clock = InitTime
    /\ changes = 0
    /\ copied = {}
    /\ pass = 1
    /\ dest0 = dest
    /\ src0 = src
    /\ received = NoEvent

NextWalk == WalkStep \/ SyncDirsReturn \/ SyncDirsAgain

SpecWalk == InitWalk /\ [][NextWalk]_vars


(***************************************************************************)
(* run.                                                                    *)
(***************************************************************************)
\* Lines 43-61: the stale marker is removed (the error of os.Remove is
\* dropped), the watcher is made (this may fail) and the source root is
\* watched.
Startup ==
    /\ pc = "start"
    /\ dest' = OsRemove(dest, statusPath).fs
    /\ \/ /\ pc' = "walk"
          /\ watches' = {Root}
          /\ todo' = <<Root>>
          /\ ret' = ret
       \/ /\ Return("L49", "EMFILE")
          /\ UNCHANGED <<watches, todo>>
    /\ UNCHANGED <<src, ignorePatterns, umask, events, errors, cancel, clock,
                   changes, copied, pass, dest0, src0, received>>

\* Lines 69-72: os.Create(statusPath), its error dropped.
Touch ==
    /\ pc = "synced"
    /\ \E now \in Stamps(clock) :
         /\ dest' = OsOpenFile(dest, statusPath, TRUE, 438, umask, now).fs
         /\ clock' = now
         /\ dest' # dest \/ now = clock
    /\ pc' = "loop"
    /\ UNCHANGED <<src, ignorePatterns, umask, watches, events, errors, cancel,
                   ret, todo, changes, copied, pass, dest0, src0, received>>

\* case <-cancel: return nil
OnCancel ==
    /\ pc = "loop"
    /\ cancel
    /\ cancel' = FALSE
    /\ Return("L79", "nil")
    /\ UNCHANGED <<src, dest, ignorePatterns, umask, watches, events, errors,
                   todo, clock, changes, copied, pass, dest0, src0, received>>

\* case err := <-w.Errors: return err
OnWatchError ==
    /\ pc = "loop"
    /\ errors
    /\ errors' = FALSE
    /\ Return("L81", "watch error")
    /\ UNCHANGED <<src, dest, ignorePatterns, umask, watches, events, cancel,
                   todo, clock, changes, copied, pass, dest0, src0, received>>

\* The outcome r of the event arm taken up by run.
Dispatched(r, now) ==
    /\ r.dest # dest \/ now = clock
    /\ clock' = now
    /\ dest' = r.dest
    /\ watches' = r.watches
    /\ IF r.at = "loop" THEN UNCHANGED <<pc, ret>> ELSE Return(r.at, r.err)

\* case ev := <-w.Events
OnEvent ==
    /\ pc = "loop"
    /\ events # <<>>
    /\ events' = Tail(events)
    /\ \E now \in Stamps(clock) :
         Dispatched(dispatch(src, dest, watches, ignorePatterns, Head(events),
                             umask, now), now)
    /\ received' = Head(events)
    /\ UNCHANGED <<src, ignorePatterns, umask, errors, cancel, todo, changes,
                   copied, pass, dest0, src0>>

(***************************************************************************)
(* The environment: the interrupt signal, the notification subsystem and   *)
(* whoever writes to the source tree while run is walking or watching.     *)
(* The watcher reports a change to an entry when the directory holding it  *)
(* is watched (or, for a removal or a mode change, the entry itself).      *)
(***************************************************************************)
Running == pc \in {"walk", "loop"}

\* signal.Notify(cancel, os.Interrupt): a signal is dropped when one waits.
Interrupt ==
    /\ Running
    /\ ~cancel
    /\ cancel' = TRUE
    /\ UNCHANGED <<src, dest, ignorePatterns, umask, watches, events, errors,
                   pc, ret, todo, clock, changes, copied, pass, dest0, src0, received>>

WatchFails ==
    /\ pc = "loop"
    /\ ~errors
    /\ errors' = TRUE
    /\ UNCHANGED <<src, dest, ignorePatterns, umask, watches, events, cancel,
                   pc, ret, todo, clock, changes, copied, pass, dest0, src0, received>>

Event(p, flag) == [name |-> p, op |-> {flag}]

Notify(w, p, flag, self) ==
    IF Parent(p) \in w \/ (self /\ p \in w) THEN <<Event(p, flag)>> ELSE <<>>

\* What appears in the source: a directory, an empty file, a symbolic link,
\* a named pipe.  (Renames are not modelled.)
Created(now) == {Dir(436), Reg(436, <<>>, now), Sym("T2"), Other(420)}

\* How the watcher may report the appearance of e: by a create event; for a
\* regular file also by one event carrying create and write, or by a create
\* event followed by a write event.
Reports(e) ==
    IF e.kind = "reg"
    THEN {<<{"create"}>>, <<{"create", "write"}>>, <<{"create"}, {"write"}>>}
    ELSE {<<{"create"}>>}

NotifyAll(w, p, rep) ==
    IF Parent(p) \in w THEN [i \in DOMAIN rep |-> [name |-> p, op |-> rep[i]]]
    ELSE <<>>

SrcCreate ==
    /\ Running
    /\ changes < MaxChanges
    /\ \E p \in Names, now \in Stamps(clock) : \E e \in Created(now) :
         /\ ~LstatOk(src, p)
         /\ ParentErr(src, p) = "nil"
         /\ e.kind = "reg" \/ now = clock
         /\ src' = [src EXCEPT ![p] = e]
         /\ clock' = now
         /\ \E rep \in Reports(e) :
              events' = events \o NotifyAll(watches, p, rep)
    /\ changes' = changes + 1
    /\ UNCHANGED <<dest, ignorePatterns, umask, watches, errors, cancel, pc,
                   ret, todo, copied, pass, dest0, src0, received>>

SrcWrite ==
    /\ Running
    /\ changes < MaxChanges
    /\ \E p \in Names, now \in Stamps(clock), data \in Datas :
         /\ LstatOk(src, p)
         /\ src[p].kind = "reg"
         /\ data # src[p].data
         /\ src' = [src EXCEPT ![p].data = data, ![p].mtime = now]
         /\ clock' = now
         /\ events' = events \o Notify(watches, p, "write", FALSE)
    /\ changes' = changes + 1
    /\ UNCHANGED <<dest, ignorePatterns, umask, watches, errors, cancel, pc,
                   ret, todo, copied, pass, dest0, src0, received>>

\* unlink or rmdir: the kernel drops the watch of a removed directory.
SrcRemove ==
    /\ Running
    /\ changes < MaxChanges
    /\ \E p \in Names :
         /\ LstatOk(src, p)
         /\ ~HasChild(src, p)
         /\ src' = [src EXCEPT ![p] = NoEnt]
         /\ events' = events \o Notify(watches, p, "remove", TRUE)
         /\ watches' = watches \ {p}
    /\ changes' = changes + 1
    /\ UNCHANGED <<dest, ignorePatterns, umask, errors, cancel, pc, ret, todo,
                   clock, copied, pass, dest0, src0, received>>

SrcChmod ==
    /\ Running
    /\ changes < MaxChanges
    /\ \E p \in Names, m \in Modes :
         /\ LstatOk(src, p)
         /\ src[p].kind \in {"dir", "reg", "other", "sock"}
         /\ m # src[p].mode
         /\ src' = [src EXCEPT ![p].mode = m]
         /\ events' = events \o Notify(watches, p, "chmod", TRUE)
    /\ changes' = changes + 1
    /\ UNCHANGED <<dest, ignorePatterns, umask, watches, errors, cancel, pc,
                   ret, todo, clock, copied, pass, dest0, src0, received>>

\* run from its first line, on a small family of trees; the destination
\* still holds the marker of an earlier run.
Init ==
    /\ src \in {s \in [AllPaths -> {NoEnt, Dir(436), Reg(420, <<1>>, 2), Sym("T1")}] :
                  /\ WellFormed(s)
                  /\ s[Root] = Dir(436)
                  /\ s[".synced"].kind \in {"none", "reg"}
                  /\ s["a/f"].kind \in {"none", "reg"}}
    /\ dest \in {d \in [AllPaths -> {NoEnt, Dir(420), Reg(420, <<2>>, 1)}] :
                  /\ WellFormed(d)
                  /\ d[Root] = Dir(420)
                  /\ d[".synced"].kind = "reg"
                  /\ d["a/f"].kind \in {"none", "reg"}}
    /\ ignorePatterns \in {{}, {".synced"}, {"a"}, {"a/f"}}
    /\ umask = 18
    /\ watches = {}
    /\ events = <<>>
    /\ errors = FALSE
    /\ cancel = FALSE
    /\ pc = "start"
    /\ ret = NoRet
    /\ todo = <<>>
    /\ clock = MaxTime
    /\ changes = 0
    /\ copied = {}
    /\ pass = 1
    /\ dest0 = dest
    /\ src0 = src
    /\ received = NoEvent

Next ==
    \/ Startup
    \/ WalkStep
    \/ SyncDirsReturn
    \/ Touch
    \/ OnCancel
    \/ OnWatchError
    \/ OnEvent
    \/ Interrupt
    \/ WatchFails
    \/ SrcCreate
    \/ SrcWrite
    \/ SrcRemove
    \/ SrcChmod

Spec == Init /\ [][Next]_vars

(***************************************************************************)
(* The handlers on their own: run in its loop with one event to receive.   *)
(* The source tree is whatever its writers have made of it since the event *)
(* was raised, the destination tree whatever the walk and the handling of  *)
(* earlier events have left; the event carries any flags.                  *)
(***************************************************************************)
Flags == {"create", "write", "remove", "chmod"}

InitEvent ==
    /\ src \in {s \in [AllPaths -> SrcEntries] :
                  /\ WellFormed(s)
                  /\ s[Root] = Dir(436)
                  /\ s[statusPath] = NoEnt}
    /\ dest \in {d \in [AllPaths -> DestEntries] :
                  /\ WellFormed(d)
                  /\ d[Root] = Dir(436)
                  /\ d[statusPath] = Reg(420, <<>>, InitTime)}
    /\ ignorePatterns \in {{}, {"a"}, {"a/f"}}
    /\ umask = 18
    /\ watches \in {{Root}} \cup
                   {{Root, "a"} : x \in {y \in {"a"} :
                        src[y].kind = "dir" /\ y \notin ignorePatterns}}
    /\ events \in {<<[name |-> p, op |-> o]>> :
                     p \in Names \ {statusPath}, o \in (SUBSET Flags) \ {{}}}
    /\ errors = FALSE
    /\ cancel = FALSE
    /\ pc = "loop"
    /\ ret = NoRet
    /\ todo = <<>>
    /\ clock = InitTime
    /\ changes = 0
    /\ copied = {}
    /\ pass = 1
    /\ dest0 = dest
    /\ src0 = src
    /\ received = NoEvent

NextEvent == OnEvent

SpecEvent == InitEvent /\ [][NextEvent]_vars


(***************************************************************************)
(* Properties.                                                             *)
(***************************************************************************)
RECURSIVE Visible(_, _, _)
\* The walk reaches p: it is there and neither it nor a directory above it
\* is matched by the ignore rule.
Visible(s, patterns, p) ==
    /\ LstatOk(s, p)
    /\ p = Root \/ (~Matches(p, patterns) /\ Visible(s, patterns, Parent(p)))

Walked == pc = "synced" /\ pass = 1

\* C1: the marker <dest>/.synced does not exist before syncDirs has
\* returned successfully; only the create step after it brings it about.
C1_MarkerOnlyAfterWalk ==
    (pc \in {"walk", "synced"} \/ (pc = "done" /\ ret.at \in {"L49", "L65"}))
        => ~LstatOk(dest, statusPath)

\* C2: once the source has stopped changing and every event is dispatched
\* (nothing is queued, no cancel, no watch error), the destination holds an
\* entry of the same kind, bytes and target for every non-ignored source
\* directory, regular file and symlink.  Stated for the entries the claim
\* names last: those inside a directory that was made after run started.
Quiescent == pc = "loop" /\ events = <<>> /\ ~cancel /\ ~errors

Mirrored(p) ==
    /\ LstatOk(dest, p)
    /\ dest[p].kind = src[p].kind
    /\ dest[p].data = src[p].data
    /\ dest[p].target = src[p].target

C2_EventuallyConsistent ==
    Quiescent =>
        \A p \in Names \ {statusPath} :
            ( /\ Visible(src, ignorePatterns, p)
              /\ src[p].kind \in {"dir", "reg", "sym"}
              /\ Parent(p) # Root
              /\ ~LstatOk(src0, Parent(p)) )
                => Mirrored(p)

\* C3: a cancellation that is observed, by the walk's check or by the cancel
\* arm of the loop, makes run return nil.
C3_CancelIsSuccess ==
    pc = "done" =>
        /\ ret.err # "canceled"
        /\ ret.at = "L79" => ret.err = "nil"

\* C4: an event whose path the ignore rule matches is discarded and the
\* loop goes on: it never makes run return.
C4_IgnoredEventLoopContinues == ~(pc = "done" /\ ret.at = "L89")

\* C5: the loop returns nil only on cancellation; a watch error is returned
\* as it is; a handler's error ends the loop with an error.
C5_LoopReturns ==
    (pc = "done" /\ ret.at \notin {"L49", "L65"}) =>
        /\ ret.err = "nil" => ret.at = "L79"
        /\ ret.at = "L81" => ret.err = "watch error"
        /\ ret.at \in {"L94", "L100", "L106", "L112"} => ret.err # "nil"


\* The walk removes the destination entry at p together with a destination
\* directory above it, which it replaces by the regular file the source
\* holds at that directory's path.
RemovedBeneath(p) ==
    /\ dest'[p] = NoEnt
    /\ todo # <<>>
    /\ Under(Head(todo), p)
    /\ Head(todo) \notin ignorePatterns
    /\ src[Head(todo)].kind = "reg"
    /\ dest[Head(todo)].kind = "dir"

\* What C6 says of the watch set and of the walk's descent: no ignored path
\* is watched, and no path inside an ignored directory is queued for a visit.
IgnoredPruned ==
    /\ \A p \in ignorePatterns : p \notin watches
    /\ \A i \in DOMAIN todo : Parent(todo[i]) \notin ignorePatterns

\* What C6 says of an event concerning an ignored path: the step that
\* receives it leaves the destination entry at that path as it is.
IgnoredEventFrame ==
    (pc = "loop" /\ events # <<>> /\ Head(events).name \in ignorePatterns)
        => dest'[Head(events).name] = dest[Head(events).name]

\* C6 as claimed: no step of the walk and no handling of an event
\* concerning an ignored path creates, modifies or removes the destination
\* entry at an ignored path; an ignored directory is never descended into
\* and never watched.
C6_IgnoreFrame ==
    [][ /\ pc = "walk" => \A p \in ignorePatterns : dest'[p] = dest[p]
        /\ IgnoredEventFrame
        /\ IgnoredPruned' ]_vars

\* C6 as amended: the same, except that the walk removes the destination
\* entries beneath a destination directory it replaces by a regular file.
C6_IgnoreFrameAmended ==
    [][ /\ pc = "walk" =>
             \A p \in ignorePatterns : dest'[p] = dest[p] \/ RemovedBeneath(p)
        /\ IgnoredEventFrame
        /\ IgnoredPruned' ]_vars

\* C6's case: the walk has passed an ignored directory holding a file, with
\* a destination entry at the ignored path, and an event concerning the
\* ignored path has then been received.
C6_Witness ==
    /\ pc = "done"
    /\ ret.at = "L89"
    /\ "a" \in ignorePatterns
    /\ src0["a"].kind = "dir"
    /\ src0["a/f"].kind = "reg"
    /\ dest0["a"].kind = "reg"
    /\ dest["a"] = dest0["a"]
    /\ ~LstatOk(dest, "a/f")
    /\ "a" \notin watches

\* C7: after a successful walk every non-ignored regular source file whose
\* destination was absent or stale has the source's content and the
\* source's permission mode at the destination.  Stated for the case the
\* claim names: a regular destination file older than the source file.
C7_StaleFileCopied ==
    Walked =>
        \A p \in Names :
            ( /\ Visible(src, ignorePatterns, p)
              /\ src[p].kind = "reg"
              /\ LstatOk(dest0, p)
              /\ dest0[p].kind = "reg"
              /\ dest0[p].mtime < src[p].mtime )
                => /\ dest[p].kind = "reg"
                   /\ dest[p].data = src[p].data
                   /\ dest[p].mode = src[p].mode

C9_SymlinkFidelity ==
    /\ ret.err # "symlinking"
    /\ Walked =>
         \A p \in Names :
             (Visible(src, ignorePatterns, p) /\ src[p].kind = "sym")
                 => dest[p] = Sym(src[p].target)

\* C10: after a successful walk every non-ignored source directory has a
\* destination directory with the same permission mode.
C10_DirsMirrored ==
    Walked =>
        \A p \in AllPaths :
            (Visible(src, ignorePatterns, p) /\ src[p].kind = "dir")
                => dest[p].kind = "dir" /\ dest[p].mode = src[p].mode

\* C11: once every event is dispatched, every source directory the ignore
\* rule does not hide is watched (also a subdirectory that appeared inside
\* a new directory before that directory was watched), and a removed
\* source directory is not watched any more.
C11_WatchCoverage ==
    Quiescent =>
        /\ \A p \in AllPaths :
             (Visible(src, ignorePatterns, p) /\ src[p].kind = "dir")
                 => p \in watches
        /\ \A p \in Names : ~LstatOk(src, p) => p \notin watches

\* C12: the walk skips the copy of a regular source file only when the
\* destination is a regular file of the same size whose modification time
\* is at or after the source's; so it calls copyFile for every non-ignored
\* regular file whose destination file differs in size or is older.
C12_StalenessRule ==
    Walked =>
        \A p \in Names :
            ( /\ Visible(src, ignorePatterns, p)
              /\ src[p].kind = "reg"
              /\ LstatOk(dest0, p)
              /\ dest0[p].kind = "reg"
              /\ ~(Size(dest0[p]) = Size(src[p]) /\ dest0[p].mtime >= src[p].mtime) )
                => p \in copied

\* The step in which run receives the event at the head of w.Events and
\* handles it.
Receives == pc = "loop" /\ events # <<>> /\ events' = Tail(events)

\* C13: handling a create event for a regular source file leaves a
\* zero-length regular file at the destination path (an existing stale
\* destination file is emptied, another kind of entry is replaced), unless
\* the staleness test says the destination is up to date, and then the
\* destination is left as it is.  (The permission bits are left out here.)
C13_CreatePlaceholder ==
    [][ ( /\ Receives
          /\ Head(events).op = {"create"}
          /\ Head(events).name \notin ignorePatterns
          /\ LstatOk(src, Head(events).name)
          /\ src[Head(events).name].kind = "reg" )
        => IF /\ LstatOk(dest, Head(events).name)
              /\ dest[Head(events).name].kind = "reg"
              /\ UpToDate(src[Head(events).name], dest[Head(events).name])
           THEN dest' = dest
           ELSE /\ dest'[Head(events).name].kind = "reg"
                /\ Size(dest'[Head(events).name]) = 0 ]_vars

\* C14: handling an event that carries the remove flag takes the path out
\* of the watch set, returns no error, and leaves no destination entry at
\* the path, whatever was there: nothing, a file, a symbolic link, an empty
\* directory or a directory with contents.
C14_RemoveDeletes ==
    [][ ( /\ Receives
          /\ Head(events).op = {"remove"}
          /\ Head(events).name \notin ignorePatterns )
        => /\ Head(events).name \notin watches'
           /\ pc' = "loop"
           /\ ~LstatOk(dest', Head(events).name) ]_vars

\* The event run receives concerns a source file that is there, regular,
\* zero bytes long and not ignored.
ZeroByteEvent ==
    /\ Receives
    /\ Head(events).name \notin ignorePatterns
    /\ LstatOk(src, Head(events).name)
    /\ src[Head(events).name].kind = "reg"
    /\ Size(src[Head(events).name]) = 0

WriteOfRegular ==
    /\ Receives
    /\ "write" \in Head(events).op
    /\ Head(events).op \cap {"create", "remove"} = {}
    /\ Head(events).name \notin ignorePatterns
    /\ LstatOk(src, Head(events).name)
    /\ src[Head(events).name].kind = "reg"
    /\ ParentErr(dest, Head(events).name) = "nil"

\* C16 as claimed: handling a write event for a regular source file, the
\* destination's directory being there, copies the file whatever the
\* staleness test would say, and the destination file has the source's
\* content afterwards.
C16_WriteAlwaysCopies ==
    [][ WriteOfRegular
        => /\ dest'[Head(events).name].kind = "reg"
           /\ dest'[Head(events).name].data = src[Head(events).name].data ]_vars

\* C16 as amended: the same, where the destination path is free or holds a
\* regular file.
C16_WriteAlwaysCopiesAmended ==
    [][ (WriteOfRegular /\ dest[Head(events).name].kind \in {"none", "reg"})
        => /\ dest'[Head(events).name].kind = "reg"
           /\ dest'[Head(events).name].data = src[Head(events).name].data ]_vars

\* C16's case: run has handled a write event for a file whose destination
\* had the same size, no older a modification time and other content, and
\* the destination now has the source's content.
C16_Witness ==
    /\ pc = "loop"
    /\ received.op = {"write"}
    /\ src[received.name].kind = "reg"
    /\ dest0[received.name].kind = "reg"
    /\ Size(dest0[received.name]) = Size(src[received.name])
    /\ dest0[received.name].mtime >= src[received.name].mtime
    /\ dest0[received.name].data # src[received.name].data
    /\ dest[received.name].data = src[received.name].data

\* C17: copyFile, as the handler of a write event, refuses a device, a
\* named pipe, a socket and a directory, and gives up where the
\* destination's directory is missing: no error, and the destination tree
\* stays as it is.
C17_CopyRefusals ==
    [][ ( /\ Receives
          /\ Head(events).op = {"write"}
          /\ Head(events).name \notin ignorePatterns
          /\ LstatOk(src, Head(events).name)
          /\ \/ src[Head(events).name].kind \in {"other", "sock", "dir"}
             \/ /\ src[Head(events).name].kind = "reg"
                /\ ParentErr(dest, Head(events).name) = "ENOENT" )
        => /\ pc' = "loop"
           /\ dest' = dest ]_vars

\* C18: a non-ignored source entry that is a device, socket or named pipe
\* is passed over by the walk, and no event concerning it, whatever its
\* flags, makes run return; the destination gets no entry for it.
C18_UnsupportedNeverErrors ==
    [][ /\ ( /\ pc = "walk" /\ todo # <<>> /\ ~cancel
             /\ Head(todo) \notin ignorePatterns
             /\ LstatOk(src, Head(todo))
             /\ src[Head(todo)].kind \in {"other", "sock"} )
           => (pc' = "walk" /\ dest' = dest)
        /\ ( /\ Receives
             /\ Head(events).name \notin ignorePatterns
             /\ LstatOk(src, Head(events).name)
             /\ src[Head(events).name].kind \in {"other", "sock"} )
           => /\ pc' = "loop"
              /\ dest[Head(events).name] = NoEnt
                    => dest'[Head(events).name] = NoEnt ]_vars

\* C19: a create event queued while the walk was running, for a directory
\* that appeared in the source after run started and that the walk has
\* already given its destination directory, is handled without error: the
\* loop goes on, the destination directory stays and the directory is
\* watched.
C19_RacedCreateIsSafe ==
    [][ ( /\ Receives
          /\ "create" \in Head(events).op
          /\ Head(events).name \notin ignorePatterns \cup {statusPath}
          /\ src0[Head(events).name].kind = "none"
          /\ dest0[Head(events).name].kind = "none"
          /\ LstatOk(src, Head(events).name)
          /\ src[Head(events).name].kind = "dir"
          /\ LstatOk(dest, Head(events).name)
          /\ dest[Head(events).name].kind = "dir" )
        => /\ pc' = "loop"
           /\ dest'[Head(events).name].kind = "dir"
           /\ Head(events).name \in watches' ]_vars

\* C20: no step of the walk removes or changes a destination entry whose
\* path has no counterpart the walk reaches in the source, except the
\* entries beneath a destination directory it removes because the source
\* holds a regular file at that directory's path.
C20_WalkFrame ==
    [][ pc = "walk" =>
          \A p \in Names :
              ~Visible(src, ignorePatterns, p)
                  => (dest'[p] = dest[p] \/ RemovedBeneath(p)) ]_vars

\* C20's case: the walk has finished, having copied a file, and a
\* destination directory and the file in it, neither of which the source
\* has, are as they were.
C20_Witness ==
    /\ Walked
    /\ copied # {}
    /\ ~LstatOk(src, "a")
    /\ dest0["a"].kind = "dir"
    /\ dest0["a/f"].kind = "reg"
    /\ dest["a"] = dest0["a"]
    /\ dest["a/f"] = dest0["a/f"]

=============================================================================
